---- MODULE Spec2Model ----
(***************************************************************************)
(* Model of grub-core/kern/ieee1275/init.c: the heap claim                 *)
(* (heap_size, heap_init, grub_claim_heap), the boot location resolver     *)
(* (grub_machine_get_bootlocation) and the bootargs importer               *)
(* (grub_parse_cmdline).                                                   *)
(*                                                                         *)
(* Addresses and lengths are modelled at a scale of 2^16: a 32-bit         *)
(* quantity of the source is a 16-bit quantity here, and every address     *)
(* constant of the source is the source's value shifted right by 16 bits   *)
(* (0xffffffff -> 0xffff, 0x30000000 -> 0x3000, 0x180000 -> 0x18).  The    *)
(* "minus one" of the source stays one unit.  64-bit arithmetic is         *)
(* arithmetic modulo Mod64.                                                *)
(***************************************************************************)
EXTENDS Integers, Sequences, FiniteSets

VARIABLES
  \* ---- heap claim ----
  arch,         \* "i386" or "powerpc" (#ifdef __i386__, lines 47-51)
  flagForce,    \* GRUB_IEEE1275_FLAG_FORCE_CLAIM
  flagNoPre15,  \* GRUB_IEEE1275_FLAG_NO_PRE1_5M_CLAIM
  memmap,       \* the firmware memory map, in firmware order
  hpc,          \* position inside grub_claim_heap
  idx,          \* next extent the iterator hands to the visitor
  total,        \* grub_uint32_t total of grub_claim_heap
  rawTotal,     \* value of total at the end of the size pass
  budget,       \* value of total after the derivation (lines 255-257)
  claims,       \* grub_claimmap calls issued so far
  regions,      \* grub_mm_init_region calls so far
  visit,        \* the visit the last visitor call made
  heapRet,      \* what grub_claim_heap handed to its caller
  \* ---- boot location ----
  bpc,          \* position inside grub_machine_get_bootlocation
  fw,           \* answers of the firmware utilities
  live,         \* strings allocated and not yet released
  device,       \* *device
  path,         \* *path
  netCalls,     \* calls of grub_ieee1275_net_config
  \* ---- bootargs ----
  cpc,          \* position inside grub_parse_cmdline
  bootargs,     \* the bootargs property as the firmware holds it
  args,         \* char args[256]
  actual,       \* grub_ssize_t actual
  ci,           \* int i
  env           \* grub_env_set calls so far

heapVars == <<arch, flagForce, flagNoPre15, memmap, hpc, idx, total, rawTotal,
              budget, claims, regions, visit, heapRet>>
bootVars == <<bpc, fw, live, device, path, netCalls>>
cmdVars  == <<cpc, bootargs, args, actual, ci, env>>
vars == <<heapVars, bootVars, cmdVars>>

----------------------------------------------------------------------------
(* Bounds *)

MaxExtents == 2     \* extents in the firmware memory map
MaxNameLen == 3     \* characters in a canonical name or a filename
MaxArgLen == 4      \* characters in the bootargs property

----------------------------------------------------------------------------
(* Integer widths and constants of the source, at scale 2^16 *)

Mod32 == 65536              \* grub_uint32_t wraps here
Mod64 == 1073741824         \* grub_uint64_t wraps here
CEIL4G == 65535             \* 0xffffffffUL
LOWMEM == 24                \* 0x180000
OSRESERVED == 12288         \* 0x30000000
GRUB_MEMORY_AVAILABLE == 1
GRUB_MEMORY_RESERVED == 2
GRUB_ERR_NONE == 0
GRUB_ERR_OUT_OF_MEMORY == 3
GRUB_IEEE1275_STATIC_HEAP_START == 256   \* 0x1000000
GRUB_IEEE1275_STATIC_HEAP_LEN == 256     \* 0x1000000

Archs == {"i386", "powerpc"}

HEAP_MAX_SIZE(a) == IF a = "i386" THEN 1024 ELSE 16384

\* The link addresses of the image: _start and _end (line 53, line 204).
image_start(a) == IF a = "i386" THEN 1 ELSE 32
image_end(a) == IF a = "i386" THEN 5 ELSE 40

U32(x) == x % Mod32
U64(x) == x % Mod64

----------------------------------------------------------------------------
(* The firmware memory maps the model ranges over *)

Ext(a, l, t) == [addr |-> a, len |-> l, type |-> t]

Extents ==
  { Ext(0, 0, 1), Ext(100, 0, 1),              \* zero length
    Ext(65535, 1, 1),                          \* base is 0xffffffff
    Ext(65536, 100, 1),                        \* above the ceiling
    Ext(65000, 1000, 1),                       \* across the ceiling
    Ext(65000, 536, 1),                        \* ends at 2^32
    Ext(65000, 535, 1),                        \* ends at 0xffffffff
    Ext(0, 65536, 1),                          \* all of the low 4 GiB
    Ext(12000, 1000, 1),                       \* across 0x30000000
    Ext(12000, 289, 1),                        \* ends at 0x30000001
    Ext(12000, 290, 1),                        \* ends at 0x30000002
    Ext(12288, 4000, 1),                       \* starts at 0x30000000
    Ext(20000, 8000, 1),
    Ext(20, 13, 1),                            \* ends at _start + 1
    Ext(20, 14, 1),                            \* over the low edge
    Ext(34, 3, 1),                             \* inside the image
    Ext(38, 10, 1),                            \* over the high edge
    Ext(40, 10, 1),                            \* starts at _end
    Ext(0, 20, 1),                             \* below 0x180000
    Ext(10, 20, 1),                            \* across 0x180000
    Ext(0, 30, 1),
    Ext(50, 3, 1),
    Ext(5000, 100, 2) }                        \* reserved

SeqsUpTo(S, n) == UNION { [1..k -> S] : k \in 0..n }

MemoryMaps == SeqsUpTo(Extents, MaxExtents)

ClaimResults == {GRUB_ERR_NONE, GRUB_ERR_OUT_OF_MEMORY}

----------------------------------------------------------------------------
(* heap_size and heap_init, step by step *)

\* ClipCeiling with a fault: the clip is made at 2^32, not at 0xffffffff.
ClipCeiling_At4G(addr, len) ==
  IF U64(addr + len) > Mod32 THEN U64(Mod32 - addr) ELSE len

\* lines 161-162 and 183-184
ClipCeiling(addr, len) ==
  IF U64(addr + len) > CEIL4G THEN U64(CEIL4G - addr) ELSE len

\* lines 191-195
TrimLowMem(addr, len) ==
  IF addr < LOWMEM
    THEN [addr |-> LOWMEM, len |-> U64(U64(addr + len) - LOWMEM)]
    ELSE [addr |-> addr, len |-> len]

\* SelfOverlapGuard with a fault: the part below the image is kept.
SelfOverlapGuard_Trim(addr, len, a) ==
  IF addr < image_end(a) /\ U64(addr + len) > image_start(a)
    THEN (IF addr < image_start(a) THEN image_start(a) - addr ELSE 0)
    ELSE len

\* lines 204-208
SelfOverlapGuard(addr, len, a) ==
  IF addr < image_end(a) /\ U64(addr + len) > image_start(a) THEN 0 ELSE len

\* TrimOSReserved with a fault: the length is cut but the base is not moved.
TrimOSReserved_KeepBase(addr, len) ==
  IF addr < OSRESERVED /\ U64(addr + len) > OSRESERVED
    THEN [addr |-> addr, len |-> U64(len - (OSRESERVED - addr))]
    ELSE [addr |-> addr, len |-> len]

\* lines 213-217
TrimOSReserved(addr, len) ==
  IF addr < OSRESERVED /\ U64(addr + len) > OSRESERVED
    THEN [addr |-> OSRESERVED, len |-> U64(len - (OSRESERVED - addr))]
    ELSE [addr |-> addr, len |-> len]

\* ClipBudget with a fault: the length is not clipped to the budget.
ClipBudget_NoClip(len, tot) == len

\* lines 219-220
ClipBudget(len, tot) == IF len > tot THEN tot ELSE len

\* lines 235-238
StopSignal(tot) == IF tot = 0 THEN 1 ELSE 0

NoClaim(tot, clip, ret) ==
  [total |-> tot, clip |-> clip, issued |-> FALSE, registered |-> FALSE,
   caddr |-> 0, clen |-> 0, ret |-> ret]

\* lines 148-168: the new total and the length counted
heap_size(addr, len, type, tot) ==
  IF type # GRUB_MEMORY_AVAILABLE THEN [total |-> tot, counted |-> 0, ret |-> 0]
  ELSE IF addr > CEIL4G THEN [total |-> tot, counted |-> 0, ret |-> 0]
  ELSE LET len1 == ClipCeiling(addr, len)
       IN [total |-> U32(tot + (len1 % Mod32)), counted |-> len1, ret |-> 0]

\* lines 170-239; err is the result grub_claimmap gives if it is called
heap_init(addr, len, type, tot, noPre15, a, err) ==
  IF type # GRUB_MEMORY_AVAILABLE THEN NoClaim(tot, 0, 0)
  ELSE IF addr > CEIL4G THEN NoClaim(tot, 0, 0)
  ELSE
    LET len1 == ClipCeiling(addr, len) IN
    IF noPre15 /\ U64(addr + len1) <= LOWMEM THEN NoClaim(tot, len1, 0)
    ELSE
      LET r2   == IF noPre15 THEN TrimLowMem(addr, len1)
                             ELSE [addr |-> addr, len |-> len1]
          len3 == U64(r2.len - 1)
          len4 == SelfOverlapGuard(r2.addr, len3, a)
          r5   == TrimOSReserved(r2.addr, len4)
          len6 == ClipBudget(r5.len, tot)
      IN
      IF len6 # 0
        THEN IF err # GRUB_ERR_NONE
               THEN [total |-> tot, clip |-> len1, issued |-> TRUE,
                     registered |-> FALSE, caddr |-> r5.addr, clen |-> len6,
                     ret |-> err]
               ELSE LET tot1 == U32(tot - len6)
                    IN [total |-> tot1, clip |-> len1, issued |-> TRUE,
                        registered |-> TRUE, caddr |-> r5.addr, clen |-> len6,
                        ret |-> StopSignal(tot1)]
        ELSE NoClaim(tot, len1, StopSignal(tot))

\* lines 255-257
DeriveBudget(tot, a) ==
  LET q == tot \div 4
  IN IF q > HEAP_MAX_SIZE(a) THEN HEAP_MAX_SIZE(a) ELSE q

\* grub_machine_mmap_iterate: one visit per extent, in firmware order, until
\* the map is exhausted or the visitor returns non-zero.
IterateDone(ret, i, map) == ret # 0 \/ i > Len(map)

NoVisit == [pass |-> 0, addr |-> 0, len |-> 0, type |-> 0, clip |-> 0,
            issued |-> FALSE, registered |-> FALSE, caddr |-> 0, clen |-> 0,
            err |-> 0, ret |-> 0]

----------------------------------------------------------------------------
(* grub_claim_heap, lines 241-260 *)

IdleBoot ==
  /\ bpc = "idle" /\ fw = <<>> /\ live = {} /\ device = <<>>
  /\ path = <<>> /\ netCalls = <<>>

IdleCmd ==
  /\ cpc = "idle" /\ bootargs = [present |-> FALSE, s |-> <<>>]
  /\ args = <<>> /\ actual = 0
  /\ ci = 0 /\ env = <<>>

IdleHeap ==
  /\ arch = "powerpc" /\ flagForce = FALSE /\ flagNoPre15 = FALSE
  /\ memmap = <<>> /\ hpc = "idle" /\ idx = 1 /\ total = 0 /\ rawTotal = 0
  /\ budget = 0 /\ claims = <<>> /\ regions = <<>> /\ visit = NoVisit
  /\ heapRet = "none"

InitHeap ==
  /\ arch \in Archs
  /\ flagForce \in BOOLEAN
  /\ flagNoPre15 \in BOOLEAN
  /\ memmap \in MemoryMaps
  /\ hpc = "entry"
  /\ idx = 1
  /\ total = 0                       \* line 244
  /\ rawTotal = 0
  /\ budget = 0
  /\ claims = <<>>
  /\ regions = <<>>
  /\ visit = NoVisit
  /\ heapRet = "none"
  /\ IdleBoot
  /\ IdleCmd

\* What one call of heap_init leaves behind.
Visited(pass, e, r) ==
  [pass |-> pass, addr |-> e.addr, len |-> e.len, type |-> e.type,
   clip |-> r.clip, issued |-> r.issued, registered |-> r.registered,
   caddr |-> r.caddr, clen |-> r.clen,
   err |-> IF r.issued /\ ~r.registered THEN r.ret ELSE 0, ret |-> r.ret]

Effects(r) ==
  /\ total' = r.total
  /\ claims' = IF r.issued
                 THEN Append(claims, [addr |-> r.caddr, len |-> r.clen,
                                      ok |-> r.registered])
                 ELSE claims
  /\ regions' = IF r.registered
                  THEN Append(regions, [addr |-> r.caddr % Mod32, len |-> r.clen])
                  ELSE regions

\* lines 246-251: the static window, then return
ForceClaim ==
  /\ hpc = "entry"
  /\ flagForce
  /\ \E err \in ClaimResults :
       LET e == Ext(GRUB_IEEE1275_STATIC_HEAP_START,
                    GRUB_IEEE1275_STATIC_HEAP_LEN, 1)
           r == heap_init(e.addr, e.len, e.type, total, flagNoPre15, arch, err)
       IN /\ Effects(r)
          /\ visit' = Visited(2, e, r)
  /\ hpc' = "done"
  /\ heapRet' = "void"
  /\ UNCHANGED <<arch, flagForce, flagNoPre15, memmap, idx, rawTotal, budget>>
  /\ UNCHANGED <<bootVars, cmdVars>>

\* line 253: one visit of heap_size
SizeVisit ==
  /\ hpc = "entry"
  /\ ~flagForce
  /\ idx <= Len(memmap)
  /\ LET e == memmap[idx]
         r == heap_size(e.addr, e.len, e.type, total)
     IN /\ total' = r.total
        /\ visit' = [NoVisit EXCEPT !.pass = 1, !.addr = e.addr, !.len = e.len,
                                    !.type = e.type, !.clip = r.counted,
                                    !.ret = r.ret]
  /\ idx' = idx + 1
  /\ UNCHANGED <<arch, flagForce, flagNoPre15, memmap, hpc, rawTotal, budget,
                 claims, regions, heapRet>>
  /\ UNCHANGED <<bootVars, cmdVars>>

\* lines 255-257, once the size pass has seen the whole map
Derive ==
  /\ hpc = "entry"
  /\ ~flagForce
  /\ IterateDone(0, idx, memmap)
  /\ rawTotal' = total
  /\ total' = DeriveBudget(total, arch)
  /\ budget' = total'
  /\ idx' = 1
  /\ hpc' = IF IterateDone(0, 1, memmap) THEN "done" ELSE "claim"
  /\ heapRet' = IF IterateDone(0, 1, memmap) THEN "void" ELSE heapRet
  /\ UNCHANGED <<arch, flagForce, flagNoPre15, memmap, claims, regions, visit>>
  /\ UNCHANGED <<bootVars, cmdVars>>

\* line 259: one visit of heap_init; the orchestrator returns when the
\* iterator does
ClaimVisit ==
  /\ hpc = "claim"
  /\ idx <= Len(memmap)
  /\ \E err \in ClaimResults :
       LET e == memmap[idx]
           r == heap_init(e.addr, e.len, e.type, total, flagNoPre15, arch, err)
       IN /\ Effects(r)
          /\ visit' = Visited(2, e, r)
          /\ hpc' = IF IterateDone(r.ret, idx + 1, memmap) THEN "done" ELSE "claim"
          /\ heapRet' = IF IterateDone(r.ret, idx + 1, memmap) THEN "void"
                                                              ELSE heapRet
  /\ idx' = idx + 1
  /\ UNCHANGED <<arch, flagForce, flagNoPre15, memmap, rawTotal, budget>>
  /\ UNCHANGED <<bootVars, cmdVars>>

NextHeap == ForceClaim \/ SizeVisit \/ Derive \/ ClaimVisit

SpecHeap == InitHeap /\ [][NextHeap]_vars

----------------------------------------------------------------------------
(* grub_machine_get_bootlocation, lines 82-136 *)

NameChars == {"/", "a", ",", ":"}
FileChars == {"\\", "a"}

\* Canonical names are not empty.
CanonNames == UNION { [1..k -> NameChars] : k \in 1..MaxNameLen }
FileNames == SeqsUpTo(FileChars, MaxNameLen)

Unset == [by |-> "nobody", val |-> <<>>]

NoAnswers == [type |-> "unasked", canonNull |-> TRUE, canon |-> <<>>,
              filenameNull |-> TRUE, filename |-> <<>>, netcfg |-> FALSE]

InitBoot ==
  /\ bpc = "entry"
  /\ fw = NoAnswers
  /\ live = {}
  /\ device = Unset
  /\ path = Unset
  /\ netCalls = <<>>
  /\ IdleHeap
  /\ IdleCmd

\* lines 104-106: the index the scan stops at (1 is the first character)
RECURSIVE StripScan(_, _)
StripScan(canon, ptr) ==
  IF ptr > 1 /\ canon[ptr] \in {",", ":"} THEN StripScan(canon, ptr - 1) ELSE ptr

\* StripTrailing with a fault: one trailing character is looked at, not all.
StripTrailing_Once(canon) ==
  IF Len(canon) > 1 /\ canon[Len(canon)] \in {",", ":"}
    THEN SubSeq(canon, 1, Len(canon) - 1)
    ELSE canon

\* lines 104-108: the name left in canon
StripTrailing(canon) == SubSeq(canon, 1, StripScan(canon, Len(canon)))

\* line 120: grub_strrchr (filename, '\\'), 0 when there is none
RECURSIVE LastBackslash(_, _)
LastBackslash(f, k) ==
  IF k = 0 THEN 0 ELSE IF f[k] = "\\" THEN k ELSE LastBackslash(f, k - 1)

\* lines 67-78
grub_translate_ieee1275_path(f) ==
  [k \in 1..Len(f) |-> IF f[k] = "\\" THEN "/" ELSE f[k]]

\* lines 89-91
GetBootDev ==
  /\ bpc = "entry"
  /\ \E present \in BOOLEAN :
       IF present
         THEN live' = live \cup {"bootpath"} /\ bpc' = "type"
         ELSE live' = live /\ bpc' = "done"
  /\ UNCHANGED <<fw, device, path, netCalls>>
  /\ UNCHANGED <<heapVars, cmdVars>>

\* lines 95-96
GetDeviceType ==
  /\ bpc = "type"
  /\ \E t \in {"NULL", "network", "block"} :
       /\ fw' = [fw EXCEPT !.type = t]
       /\ live' = IF t = "NULL" THEN live ELSE live \cup {"type"}
       /\ bpc' = IF t = "network" THEN "network" ELSE "other"
  /\ UNCHANGED <<device, path, netCalls>>
  /\ UNCHANGED <<heapVars, cmdVars>>

\* lines 98-103: no canonical name
NetworkNoCanon ==
  /\ bpc = "network"
  /\ \E devOk \in BOOLEAN, netcfg \in BOOLEAN :
       /\ fw' = [fw EXCEPT !.canonNull = TRUE, !.netcfg = netcfg]
       /\ live' = live \cup (IF devOk THEN {"dev"} ELSE {})
  /\ bpc' = "done"
  /\ UNCHANGED <<device, path, netCalls>>
  /\ UNCHANGED <<heapVars, cmdVars>>

\* lines 98-113: a canonical name; the callback, when there is one, fills in
\* *device and *path
NetworkBranch ==
  /\ bpc = "network"
  /\ \E devOk \in BOOLEAN, netcfg \in BOOLEAN, canon \in CanonNames :
       /\ fw' = [fw EXCEPT !.canonNull = FALSE, !.canon = canon,
                           !.netcfg = netcfg]
       /\ netCalls' = IF netcfg THEN Append(netCalls, StripTrailing(canon))
                                ELSE netCalls
       /\ device' = IF netcfg THEN [by |-> "callback", val |-> <<>>] ELSE device
       /\ path' = IF netcfg THEN [by |-> "callback", val |-> <<>>] ELSE path
       /\ live' = ((live \cup (IF devOk THEN {"dev"} ELSE {})) \cup {"canon"})
                    \ {"dev", "canon"}
  /\ bpc' = "cleanup"
  /\ UNCHANGED <<heapVars, cmdVars>>

\* lines 117-131
OtherBranch ==
  /\ bpc = "other"
  /\ \E fnNull \in BOOLEAN, f \in FileNames :
       LET lastslash == LastBackslash(f, Len(f))
       IN /\ fw' = [fw EXCEPT !.filenameNull = fnNull,
                              !.filename = IF fnNull THEN <<>> ELSE f]
          /\ path' = IF ~fnNull /\ lastslash # 0
                       THEN [by |-> "resolver",
                             val |-> grub_translate_ieee1275_path(
                                        SubSeq(f, 1, lastslash - 1))]
                       ELSE path
          /\ live' = (live \cup (IF fnNull THEN {} ELSE {"filename"}))
                       \cup {"devname"}
  /\ device' = [by |-> "resolver", val |-> <<"encoded">>]
  /\ bpc' = "cleanup"
  /\ UNCHANGED netCalls
  /\ UNCHANGED <<heapVars, cmdVars>>

\* lines 134-136
Cleanup ==
  /\ bpc = "cleanup"
  /\ live' = live \ {"type", "bootpath"}
  /\ bpc' = "done"
  /\ UNCHANGED <<fw, device, path, netCalls>>
  /\ UNCHANGED <<heapVars, cmdVars>>

NextBoot ==
  GetBootDev \/ GetDeviceType \/ NetworkNoCanon \/ NetworkBranch
    \/ OtherBranch \/ Cleanup

SpecBoot == InitBoot /\ [][NextBoot]_vars

----------------------------------------------------------------------------
(* grub_parse_cmdline, lines 263-301 *)

NUL == ""
ARGS_SIZE == 256            \* char args[256], in bytes
ArgChars == {"a", "=", ";", " "}
Example == <<"a", "=", "1", ";", "b", "=", "2", ";", " ", " ", "c", "=", "3">>

\* The values of the bootargs property, without the terminating NUL.
BootArgs == SeqsUpTo(ArgChars, MaxArgLen) \cup {Example}

InitCmd ==
  /\ cpc = "entry"
  /\ bootargs = [present |-> FALSE, s |-> <<>>]
  /\ args = <<>>
  /\ actual = 0
  /\ ci = 0
  /\ env = <<>>
  /\ IdleHeap
  /\ IdleBoot

\* args[k] of the source: offsets start at 0
Byte(buf, k) == buf[k + 1]

grub_isspace(c) == c \in {" ", "\t", "\n", "\r"}

\* grub_strchr (&buf[from], c): the offset of the first c before the NUL,
\* -1 when there is none
RECURSIVE grub_strchr(_, _, _)
grub_strchr(buf, from, c) ==
  IF Byte(buf, from) = c THEN from
  ELSE IF Byte(buf, from) = NUL THEN -1
  ELSE grub_strchr(buf, from + 1, c)

\* The C string that starts at offset from.
RECURSIVE CString(_, _)
CString(buf, from) ==
  IF Byte(buf, from) = NUL THEN <<>>
  ELSE <<Byte(buf, from)>> \o CString(buf, from + 1)

\* SkipSpace with a fault: the whitespace after a ';' is not skipped.
SkipSpace_None(buf, k) == k

\* lines 288-289
RECURSIVE SkipSpace(_, _)
SkipSpace(buf, k) ==
  IF grub_isspace(Byte(buf, k)) THEN SkipSpace(buf, k + 1) ELSE k

PutNul(buf, k) == [buf EXCEPT ![k + 1] = NUL]

\* lines 269-273; the property, its NUL included, fits in args
GetBootArgs ==
  /\ cpc = "entry"
  /\ \E present \in BOOLEAN, s \in BootArgs :
       /\ Len(s) + 1 <= ARGS_SIZE
       /\ bootargs' = [present |-> present, s |-> IF present THEN s ELSE <<>>]
       /\ args' = IF present THEN s \o <<NUL>> ELSE args
       /\ actual' = IF present THEN Len(s) + 1 ELSE actual
       /\ cpc' = IF present /\ Len(s) + 1 > 1 THEN "loop" ELSE "done"
  /\ ci' = 0
  /\ UNCHANGED env
  /\ UNCHANGED <<heapVars, bootVars>>

\* lines 275-299: one round of the loop
ParseCommand ==
  /\ cpc = "loop"
  /\ ci < actual
  /\ LET command == ci
         end     == grub_strchr(args, command, ";")
         args1   == IF end = -1 THEN args ELSE PutNul(args, end)
         i1      == IF end = -1 THEN actual
                                ELSE SkipSpace(args1, ci + (end - command) + 1)
         val     == grub_strchr(args1, command, "=")
         args2   == IF val = -1 THEN args1 ELSE PutNul(args1, val)
     IN /\ args' = args2
        /\ ci' = i1
        /\ env' = IF val = -1 THEN env
                  ELSE Append(env, <<CString(args2, command),
                                     CString(args2, val + 1)>>)
        /\ cpc' = IF i1 < actual THEN "loop" ELSE "done"
  /\ UNCHANGED <<bootargs, actual>>
  /\ UNCHANGED <<heapVars, bootVars>>

NextCmd == GetBootArgs \/ ParseCommand

SpecCmd == InitCmd /\ [][NextCmd]_vars

----------------------------------------------------------------------------
(* Properties of the heap claim *)

RECURSIVE SumLen(_)
SumLen(rs) == IF rs = <<>> THEN 0 ELSE Head(rs).len + SumLen(Tail(rs))

Min(a, b) == IF a < b THEN a ELSE b
Max(a, b) == IF a > b THEN a ELSE b

ClaimVisited == visit.pass = 2 /\ visit.type = GRUB_MEMORY_AVAILABLE

\* C1: in the dynamic strategy the lengths of the regions claimed and
\* registered sum to at most the budget min(raw total / 4, HEAP_MAX_SIZE), the
\* remaining budget is exactly the budget less that sum (it never underflows),
\* and the visit that brings the remaining budget to zero returns 1 and ends
\* the pass, so that no extent is visited with a budget used up.
C1_BudgetRespected ==
  (~flagForce /\ hpc \in {"claim", "done"}) =>
    /\ budget = Min(rawTotal \div 4, HEAP_MAX_SIZE(arch))
    /\ SumLen(regions) <= budget
    /\ total = budget - SumLen(regions)
    /\ (visit.pass = 2 /\ visit.registered /\ total = 0)
         => (visit.ret = 1 /\ hpc = "done")
    /\ (hpc = "claim" /\ budget > 0) => total > 0

\* C1 witness: the cap applies, the budget is used up by a claim and an
\* extent of the map is left unvisited.
C1_Witness ==
  /\ ~flagForce /\ hpc = "done" /\ total = 0 /\ Len(regions) >= 1
  /\ rawTotal \div 4 > HEAP_MAX_SIZE(arch) /\ budget = HEAP_MAX_SIZE(arch)
  /\ idx <= Len(memmap)

\* C2 (as claimed): with FORCE_CLAIM set exactly one claim is issued, for the
\* static window less the one unit every extent loses, it is registered when
\* the firmware grants it, and the memory map is not visited.
C2_StaticWindowClaimed ==
  (flagForce /\ hpc = "done") =>
    /\ Len(claims) = 1
    /\ claims[1].addr = GRUB_IEEE1275_STATIC_HEAP_START
    /\ claims[1].len = GRUB_IEEE1275_STATIC_HEAP_LEN - 1
    /\ (claims[1].ok => regions = <<[addr |-> claims[1].addr,
                                     len |-> claims[1].len]>>)
    /\ idx = 1

\* The range of an extent left for claiming by the ceiling clip, the
\* low-memory trim and the minus-one: [EligibleLo, EligibleHi).
EligibleLo == Max(visit.addr, IF flagNoPre15 THEN LOWMEM ELSE 0)
EligibleHi == Min(visit.addr + visit.len, CEIL4G) - 1

\* C3 (amended): an Available extent whose range left by the ceiling clip,
\* the low-memory trim and the minus-one intersects [_start, _end) is dropped
\* in full: no claim is issued and nothing is registered for it.
C3_OverlapDroppedInFull ==
  ( /\ ClaimVisited
    /\ EligibleLo < EligibleHi
    /\ EligibleLo < image_end(arch)
    /\ EligibleHi > image_start(arch) )
  => (~visit.issued /\ ~visit.registered)

\* C3 witness: an extent that starts below the image and reaches into it is
\* dropped although budget is left.
C3_Witness ==
  /\ ClaimVisited /\ total > 0
  /\ visit.addr < image_start(arch)
  /\ EligibleLo < image_start(arch)
  /\ EligibleHi > image_start(arch)
  /\ ~visit.issued

\* C3 (as claimed): every Available extent that intersects [_start, _end) is
\* dropped in full.
C3_AsClaimed ==
  ( /\ ClaimVisited
    /\ visit.len > 0
    /\ visit.addr < image_end(arch)
    /\ visit.addr + visit.len > image_start(arch) )
  => ~visit.issued

\* C4 (as claimed): a failed grub_claimmap ends the pass at once, the range
\* is not registered, earlier regions stay, and the failure is the result
\* grub_claim_heap hands to its caller.
C4_FailurePropagated ==
  (visit.pass = 2 /\ visit.issued /\ ~visit.registered) =>
    /\ hpc = "done"
    /\ Len(regions) = Len(claims) - 1
    /\ \A k \in 1..Len(claims) : claims[k].ok <=> k < Len(claims)
    /\ heapRet = "failure"

\* C5 (amended): in both passes an Available extent with base below
\* 0xffffffff and end beyond it is clipped to 0xffffffff - base, an extent
\* with base at or above 0xffffffff has length zero after the clip (and one
\* above it is never claimed), and an extent ending at or below 0xffffffff is
\* not shortened; the size pass adds exactly the clipped length.
C5_CeilingClip ==
  (visit.pass \in {1, 2} /\ visit.type = GRUB_MEMORY_AVAILABLE) =>
    /\ (visit.addr < CEIL4G /\ visit.addr + visit.len > CEIL4G)
         => visit.clip = CEIL4G - visit.addr
    /\ visit.addr >= CEIL4G => visit.clip = 0
    /\ visit.addr > CEIL4G => ~visit.issued
    /\ visit.addr + visit.len <= CEIL4G => visit.clip = visit.len
    /\ (visit.pass = 1 /\ idx = 2) => total = visit.clip

\* C5 witness: an extent across the ceiling is claimed in the claim pass.
C5_Witness ==
  /\ ClaimVisited /\ visit.issued
  /\ visit.addr < CEIL4G /\ visit.addr + visit.len > CEIL4G
  /\ visit.clip = CEIL4G - visit.addr

\* C5 (as claimed): the ceiling is 2^32.
C5_AsClaimed ==
  (visit.pass \in {1, 2} /\ visit.type = GRUB_MEMORY_AVAILABLE) =>
    /\ (visit.addr < Mod32 /\ visit.addr + visit.len > Mod32)
         => visit.clip = Mod32 - visit.addr
    /\ visit.addr >= Mod32 => visit.clip = 0
    /\ visit.addr + visit.len <= Mod32 => visit.clip = visit.len

\* C6 (amended): an Available extent with base below 0x30000000 and end
\* beyond 0x30000001 that is claimed is claimed from 0x30000000 exactly; an
\* extent ending at 0x30000001 is claimed below 0x30000000 only.
C6_ReservedWindowTrim ==
  (ClaimVisited /\ visit.issued /\ visit.addr < OSRESERVED) =>
    /\ visit.addr + visit.len > OSRESERVED + 1 => visit.caddr = OSRESERVED
    /\ visit.addr + visit.len = OSRESERVED + 1
         => visit.caddr + visit.clen <= OSRESERVED

\* C6 witness: an extent across 0x30000000 is claimed and registered.
C6_Witness ==
  /\ ClaimVisited /\ visit.registered
  /\ visit.addr < OSRESERVED /\ visit.addr + visit.len > OSRESERVED + 1
  /\ visit.caddr = OSRESERVED

\* C6 (as claimed): every claimed extent with base < 0x30000000 < base +
\* length is claimed from 0x30000000.
C6_AsClaimed ==
  ( /\ ClaimVisited /\ visit.issued
    /\ visit.addr < OSRESERVED
    /\ OSRESERVED < visit.addr + visit.len )
  => visit.caddr = OSRESERVED

\* C10 (as claimed): every claim request of the dynamic claim pass lies
\* inside the extent being visited.
C10_ClaimInsideExtent ==
  (~flagForce /\ ClaimVisited /\ visit.issued) =>
    /\ visit.caddr >= visit.addr
    /\ visit.caddr + visit.clen <= visit.addr + visit.len

----------------------------------------------------------------------------
(* Properties of the boot location resolver *)

Separators == {",", ":"}

\* C7 (amended): for a "network" boot device with a canonical name and a
\* registered callback, the callback is called exactly once, with the
\* canonical name less its trailing ',' and ':' characters, except that the
\* first character of the name is always kept (a name made only of such
\* characters is passed as its first character); without a canonical name or
\* a callback there is no call; the resolver never writes *device or *path.
C7_NetworkCallback ==
  (fw.type = "network" /\ bpc \in {"cleanup", "done"}) =>
    /\ device.by # "resolver"
    /\ path.by # "resolver"
    /\ (fw.canonNull \/ ~fw.netcfg) => netCalls = <<>>
    /\ (~fw.canonNull /\ fw.netcfg) =>
         /\ Len(netCalls) = 1
         /\ LET n == netCalls[1]
            IN /\ Len(n) >= 1
               /\ n = SubSeq(fw.canon, 1, Len(n))
               /\ \A k \in (Len(n) + 1)..Len(fw.canon) : fw.canon[k] \in Separators
               /\ n[Len(n)] \in Separators => Len(n) = 1

\* C7 witness: two trailing separators were stripped and the callback has
\* filled in the device.
C7_Witness ==
  /\ bpc = "done" /\ fw.type = "network"
  /\ Len(netCalls) = 1
  /\ Len(netCalls[1]) + 2 = Len(fw.canon)
  /\ device.by = "callback"

\* C7 (as claimed): the name passed to the callback never ends in ',' or ':'.
C7_AsClaimed ==
  (fw.type = "network" /\ bpc \in {"cleanup", "done"} /\ Len(netCalls) = 1) =>
    LET n == netCalls[1]
    IN n = <<>> \/ n[Len(n)] \notin Separators

\* The strings handed over through *device and *path.
Escaped ==
  (IF device.by = "resolver" THEN {"devname"} ELSE {})
    \cup (IF path.by = "resolver" THEN {"filename"} ELSE {})

\* C8 (as claimed): when the resolver returns, every string it obtained is
\* released, except those stored into *device and *path.
C8_AllReleased == bpc = "done" => live \ Escaped = {}

----------------------------------------------------------------------------
(* Properties of the bootargs importer *)

FirstIndex(s, c) ==
  IF \E k \in 1..Len(s) : s[k] = c
    THEN CHOOSE k \in 1..Len(s) : s[k] = c /\ \A j \in 1..(k - 1) : s[j] # c
    ELSE 0

RECURSIVE LStrip(_)
LStrip(s) == IF s # <<>> /\ grub_isspace(Head(s)) THEN LStrip(Tail(s)) ELSE s

\* The ';'-delimited tokens of s, less the whitespace after each ';'.
RECURSIVE Tokens(_)
Tokens(s) ==
  LET k == FirstIndex(s, ";")
  IN IF k = 0 THEN <<s>>
     ELSE <<SubSeq(s, 1, k - 1)>> \o Tokens(LStrip(SubSeq(s, k + 1, Len(s))))

\* One entry for each token that holds an '='.
RECURSIVE Entries(_)
Entries(ts) ==
  IF ts = <<>> THEN <<>>
  ELSE LET t == Head(ts)
           k == FirstIndex(t, "=")
       IN (IF k = 0 THEN <<>>
           ELSE << <<SubSeq(t, 1, k - 1), SubSeq(t, k + 1, Len(t))>> >>)
          \o Entries(Tail(ts))

ExpectedEnv ==
  IF bootargs.present /\ Len(bootargs.s) + 1 > 1
    THEN Entries(Tokens(bootargs.s))
    ELSE <<>>

====
